---- MODULE Spec2Model ----
(***************************************************************************)
(* Model of the support-automaton dashboard front end.                     *)
(*                                                                         *)
(*   Part I  - components/Dashboard.tsx: the Dashboard view, its ticket    *)
(*             collection, its busy flag and its two network actions       *)
(*             (fetchTickets, runAiReply).  Specification: Spec.           *)
(*   Part II - the useFlaskApi hook: makeRequest and its convenience       *)
(*             calls.  Specification: ApiSpec.                             *)
(*                                                                         *)
(* An awaited fetch is a suspension point: the part of a handler before    *)
(* the await and the part after it are separate atomic steps, and the      *)
(* network decides when, in which order and with which response the        *)
(* second part runs.                                                       *)
(***************************************************************************)
EXTENDS Integers, Sequences, FiniteSets, TLC

VARIABLES
    tickets,    \* Dashboard: useState<Ticket[]>([])
    isLoading,  \* Dashboard: useState(false), the busy flag
    mounted,    \* Dashboard: whether the mount effect has run
    inflight,   \* Dashboard: fetch() calls awaiting their response
    issued,     \* Dashboard: number of fetch() calls made so far
    newestDone, \* Dashboard: highest id among completed ticket-list requests (history)
    effects,    \* Dashboard: toast() and fetch() calls of the last handler, in program order
    last,       \* Dashboard: what the last handler step was (history)
    loading,    \* useFlaskApi: useState(false)
    calls,      \* useFlaskApi: makeRequest calls awaiting fetch
    settled,    \* useFlaskApi: how the makeRequest promise that finished last settled
    apiIssued   \* useFlaskApi: number of makeRequest calls so far

dashVars == <<tickets, isLoading, mounted, inflight, issued, newestDone, effects, last>>
apiVars  == <<loading, calls, settled, apiIssued>>
vars     == <<tickets, isLoading, mounted, inflight, issued, newestDone, effects, last,
              loading, calls, settled, apiIssued>>

(***************************************************************************)
(* Bounds                                                                  *)
(***************************************************************************)
MaxRequests == 5    \* fetch() calls the view may issue in one run
MaxTickets  == 1    \* longest ticket list a response carries
MaxCalls    == 2    \* makeRequest calls in one run of the hook

(***************************************************************************)
(* JavaScript values that flow through the view                            *)
(***************************************************************************)
TicketIds == {7, 8}

TicketLists == UNION {[1..n -> TicketIds] : n \in 0..MaxTickets}

JsUndefined == [t |-> "undefined", v |-> <<>>]
JsNull      == [t |-> "null", v |-> <<>>]
JsArray(s)  == [t |-> "array", v |-> s]

\* JavaScript truthiness: undefined and null are falsy, every array (also
\* the empty one) is truthy.
Truthy(x) == x.t = "array"

\* a || b
JsOr(a, b) == IF Truthy(a) THEN a ELSE b

(***************************************************************************)
(* Responses of the backend.  A body either is not JSON (response.json()   *)
(* rejects), is the JSON value null, or is an object whose "tickets"       *)
(* property is absent (undefined), null or an array.                       *)
(***************************************************************************)
TicketsEndpoint == "/test_zendesk"
AiEndpoint      == "/run_ai_reply"

Statuses == {200, 500}

TicketsFields == {JsUndefined, JsNull} \cup {JsArray(s) : s \in TicketLists}

Bodies == {[json |-> "invalid", tickets |-> JsUndefined],
           [json |-> "null", tickets |-> JsUndefined]}
          \cup {[json |-> "object", tickets |-> f] : f \in TicketsFields}

NoBody == [json |-> "invalid", tickets |-> JsUndefined]

\* fetch() rejected (transport failure): there is no response at all
Threw == [kind |-> "threw", status |-> 0, body |-> NoBody]

Responses == {Threw} \cup {[kind |-> "http", status |-> s, body |-> b] : s \in Statuses, b \in Bodies}

\* Response.ok
Ok(resp) == resp.kind = "http" /\ resp.status \in 200..299

(***************************************************************************)
(* Side effects a handler performs, recorded in program order              *)
(***************************************************************************)
ToastFetchError == [call |-> "toast", title |-> "Error",
                    description |-> "Failed to fetch tickets", variant |-> "destructive"]
ToastAiError    == [call |-> "toast", title |-> "Error",
                    description |-> "Failed to run AI replies", variant |-> "destructive"]
ToastAiSuccess  == [call |-> "toast", title |-> "Success",
                    description |-> "AI replies sent successfully", variant |-> "default"]
FetchCall(endpoint) == [call |-> "fetch", title |-> endpoint,
                        description |-> "", variant |-> ""]

NoResp == [kind |-> "none", status |-> 0, body |-> NoBody]

(***************************************************************************)
(* fetchTickets                                                            *)
(***************************************************************************)
\* Does the try block of fetchTickets throw for this response?  fetch
\* rejects, response.json() rejects, or data.tickets is read off null.
FetchTicketsThrows(resp) ==
    \/ resp.kind = "threw"
    \/ Ok(resp) /\ resp.body.json \in {"invalid", "null"}

\* The ticket collection after the try/catch of fetchTickets.
TicketsAfterFetchClearOnError(tk, resp) ==
    IF Ok(resp) /\ ~FetchTicketsThrows(resp)
    THEN JsOr(resp.body.tickets, JsArray(<<>>)).v
    ELSE <<>>

TicketsAfterFetchAppend(tk, resp) ==
    IF Ok(resp) /\ ~FetchTicketsThrows(resp)
    THEN tk \o JsOr(resp.body.tickets, JsArray(<<>>)).v
    ELSE tk

TicketsAfterFetch(tk, resp) ==
    IF Ok(resp) /\ ~FetchTicketsThrows(resp)
    THEN JsOr(resp.body.tickets, JsArray(<<>>)).v
    ELSE tk

\* The toast calls of fetchTickets after its await.
FetchTicketsToasts(resp) ==
    IF FetchTicketsThrows(resp) THEN <<ToastFetchError>> ELSE <<>>

\* Room for `need` more fetch() calls; every AI-reply request in flight
\* keeps one call in reserve for the reload it may start.
Room(need) ==
    issued + Cardinality({r \in inflight : r.endpoint = AiEndpoint}) + need <= MaxRequests

NewRequest(endpoint) ==
    [id |-> issued + 1, endpoint |-> endpoint, before |-> tickets, overwritten |-> FALSE]

\* fetchTickets up to its await: setIsLoading(true); fetch('/test_zendesk')
FetchTicketsStart(op) ==
    /\ Room(1)
    /\ isLoading' = TRUE
    /\ inflight' = inflight \cup {NewRequest(TicketsEndpoint)}
    /\ issued' = issued + 1
    /\ effects' = <<FetchCall(TicketsEndpoint)>>
    /\ last' = [op |-> op, id |-> issued + 1, endpoint |-> TicketsEndpoint, resp |-> NoResp,
                prev |-> tickets, before |-> tickets, overwritten |-> FALSE,
                overlapped |-> FALSE]
    /\ UNCHANGED <<tickets, newestDone>>

\* useEffect(() => { fetchTickets(); ... }, [])
Mount ==
    /\ ~mounted
    /\ mounted' = TRUE
    /\ FetchTicketsStart("mount")
    /\ UNCHANGED apiVars

\* The Refresh button: onClick={fetchTickets} disabled={isLoading}
ClickRefresh ==
    /\ mounted
    /\ ~isLoading
    /\ FetchTicketsStart("refresh")
    /\ UNCHANGED <<mounted>>
    /\ UNCHANGED apiVars

\* Mark the other ticket-list requests in flight as having seen the
\* collection change under them (history only).
MarkOverwritten(rest, changed) ==
    {[r EXCEPT !.overwritten = r.overwritten \/ changed] : r \in rest}

LastDone(r, resp) ==
    [op |-> "done", id |-> r.id, endpoint |-> r.endpoint, resp |-> resp,
     prev |-> tickets, before |-> r.before, overwritten |-> r.overwritten,
     overlapped |-> newestDone > r.id]

\* fetchTickets after its await, with setIsLoading(false) moved into the
\* `if (response.ok)` block.
FetchTicketsDoneBusyStuck(r, resp) ==
    /\ r \in inflight
    /\ r.endpoint = TicketsEndpoint
    /\ tickets' = TicketsAfterFetch(tickets, resp)
    /\ effects' = FetchTicketsToasts(resp)
    /\ isLoading' = IF Ok(resp) /\ ~FetchTicketsThrows(resp) THEN FALSE ELSE isLoading
    /\ inflight' = MarkOverwritten(inflight \ {r}, Ok(resp) /\ ~FetchTicketsThrows(resp))
    /\ newestDone' = IF r.id > newestDone THEN r.id ELSE newestDone
    /\ last' = LastDone(r, resp)
    /\ UNCHANGED <<mounted, issued>>
    /\ UNCHANGED apiVars

\* fetchTickets after its await, discarding the response of a request that
\* is older than one already completed.
FetchTicketsDoneDropStale(r, resp) ==
    /\ r \in inflight
    /\ r.endpoint = TicketsEndpoint
    /\ tickets' = IF newestDone > r.id THEN tickets ELSE TicketsAfterFetch(tickets, resp)
    /\ effects' = FetchTicketsToasts(resp)
    /\ isLoading' = FALSE
    /\ inflight' = MarkOverwritten(inflight \ {r}, Ok(resp) /\ ~FetchTicketsThrows(resp))
    /\ newestDone' = IF r.id > newestDone THEN r.id ELSE newestDone
    /\ last' = LastDone(r, resp)
    /\ UNCHANGED <<mounted, issued>>
    /\ UNCHANGED apiVars

\* fetchTickets after its await: the response arrives (or fetch rejects).
FetchTicketsDone(r, resp) ==
    /\ r \in inflight
    /\ r.endpoint = TicketsEndpoint
    /\ tickets' = TicketsAfterFetch(tickets, resp)
    /\ effects' = FetchTicketsToasts(resp)
    /\ isLoading' = FALSE
    /\ inflight' = MarkOverwritten(inflight \ {r}, Ok(resp) /\ ~FetchTicketsThrows(resp))
    /\ newestDone' = IF r.id > newestDone THEN r.id ELSE newestDone
    /\ last' = LastDone(r, resp)
    /\ UNCHANGED <<mounted, issued>>
    /\ UNCHANGED apiVars

(***************************************************************************)
(* runAiReply                                                              *)
(***************************************************************************)
\* The Run AI Replies button: onClick={runAiReply} disabled={isLoading};
\* runAiReply up to its await: setIsLoading(true); fetch('/run_ai_reply')
ClickRunAi ==
    /\ mounted
    /\ ~isLoading
    /\ Room(2)
    /\ isLoading' = TRUE
    /\ inflight' = inflight \cup {NewRequest(AiEndpoint)}
    /\ issued' = issued + 1
    /\ effects' = <<FetchCall(AiEndpoint)>>
    /\ last' = [op |-> "runAi", id |-> issued + 1, endpoint |-> AiEndpoint, resp |-> NoResp,
                prev |-> tickets, before |-> tickets, overwritten |-> FALSE,
                overlapped |-> FALSE]
    /\ UNCHANGED <<tickets, mounted, newestDone>>
    /\ UNCHANGED apiVars

\* The toast() and fetch() calls of runAiReply after its await.  The body
\* of the response is never read, so only fetch itself can throw.
RunAiEffectsReloadFirst(resp) ==
    IF resp.kind = "threw" THEN <<ToastAiError>>
    ELSE IF Ok(resp) THEN <<FetchCall(TicketsEndpoint), ToastAiSuccess>>
    ELSE <<>>

RunAiEffects(resp) ==
    IF resp.kind = "threw" THEN <<ToastAiError>>
    ELSE IF Ok(resp) THEN <<ToastAiSuccess, FetchCall(TicketsEndpoint)>>
    ELSE <<>>

\* runAiReply after its await.  On an OK status it calls fetchTickets()
\* without awaiting it: fetchTickets runs up to its own await
\* (setIsLoading(true), fetch issued) and then runAiReply goes on to its
\* final setIsLoading(false).
RunAiReplyDone(r, resp) ==
    /\ r \in inflight
    /\ r.endpoint = AiEndpoint
    /\ effects' = RunAiEffects(resp)
    /\ inflight' = IF Ok(resp)
                   THEN (inflight \ {r}) \cup {NewRequest(TicketsEndpoint)}
                   ELSE inflight \ {r}
    /\ issued' = IF Ok(resp) THEN issued + 1 ELSE issued
    /\ isLoading' = FALSE
    /\ last' = LastDone(r, resp)
    /\ UNCHANGED <<tickets, mounted, newestDone>>
    /\ UNCHANGED apiVars

(***************************************************************************)
(* Part II - the useFlaskApi hook                                          *)
(***************************************************************************)
FLASK_BASE_URL == "http://localhost:3000"

\* A JavaScript object literal is a function from its own property names;
\* {...a, ...b} keeps every key of a and of b, b winning on a clash.
EmptyObject == [k \in {} |-> ""]

Spread(a, b) ==
    [k \in (DOMAIN a) \cup (DOMAIN b) |-> IF k \in DOMAIN b THEN b[k] ELSE a[k]]

\* Message strings are sequences of characters.
JsString(s) == [t |-> "string", v |-> s]

DigitChar(d) ==
    CASE d = 0 -> "0" [] d = 1 -> "1" [] d = 2 -> "2" [] d = 3 -> "3" [] d = 4 -> "4"
      [] d = 5 -> "5" [] d = 6 -> "6" [] d = 7 -> "7" [] d = 8 -> "8" [] d = 9 -> "9"

\* `${n}` for a non-negative integer: its decimal digits.
RECURSIVE NumberToString(_)
NumberToString(n) ==
    IF n < 10 THEN <<DigitChar(n)>>
    ELSE NumberToString(n \div 10) \o <<DigitChar(n % 10)>>

HttpErrorPrefix ==
    <<"H", "T", "T", "P", " ", "e", "r", "r", "o", "r", "!", " ",
      "s", "t", "a", "t", "u", "s", ":", " ">>

\* `HTTP error! status: ${response.status}`
HttpErrorMessage(status) == HttpErrorPrefix \o NumberToString(status)

UnknownError ==
    <<"U", "n", "k", "n", "o", "w", "n", " ", "e", "r", "r", "o", "r">>

\* The message of the SyntaxError response.json() rejects with.
JsonSyntaxMessage ==
    <<"U", "n", "e", "x", "p", "e", "c", "t", "e", "d", " ", "t", "o", "k", "e", "n">>

\* What fetch may reject with: an Error carrying a message, or any other
\* thrown value (an abort reason, for instance).
ThrownMessages == {<<>>, <<"F", "a", "i", "l", "e", "d", " ", "t", "o", " ", "f", "e", "t", "c", "h">>}

ThrownValues == {[isError |-> e, message |-> m] : e \in BOOLEAN, m \in ThrownMessages}

ApiStatuses == {200, 204, 404, 500}

NoThrown == [isError |-> FALSE, message |-> <<>>]

\* Outcomes of the fetch of makeRequest: it rejects with a thrown value or
\* resolves with a response.
ApiOutcomes ==
    {[kind |-> "threw", thrown |-> t, status |-> 0, body |-> NoBody] : t \in ThrownValues}
    \cup {[kind |-> "http", thrown |-> NoThrown, status |-> s, body |-> b] :
            s \in ApiStatuses, b \in Bodies}

\* data: null
DataNull == [json |-> "null", tickets |-> JsUndefined]

\* Request options a caller may pass to makeRequest.  The header sets are
\* the non-empty ones; uploadDocument passes the empty one.
HeaderSets ==
    {[Authorization |-> "Bearer token"],
     [Accept |-> "text/plain", Authorization |-> "Bearer token"],
     [k \in {"Content-Type"} |-> "text/plain"],
     [k \in {"Content-Type", "Authorization"} |->
         IF k = "Content-Type" THEN "text/plain" ELSE "Bearer token"]}

TextBody(s) == [t |-> "text", entries |-> <<>>, text |-> s]

OptionSets ==
    {EmptyObject}
    \cup {[headers |-> h] : h \in HeaderSets}
    \cup {[method |-> "POST", body |-> TextBody("{}")]}
    \cup {[method |-> "POST", body |-> TextBody("{}"), headers |-> [Authorization |-> "Bearer token"]]}

Endpoints == {"/test_zendesk", "/run_ai_reply", "/upload_document"}

Files == {"faq.pdf", "notes.txt"}

DefaultHeaders == [k \in {"Content-Type"} |-> "application/json"]

\* ...options.headers: spreading undefined adds nothing.
OptionHeaders(options) ==
    IF "headers" \in DOMAIN options THEN options.headers ELSE EmptyObject

\* The init object handed to fetch, with `...options` spread before the
\* merged headers instead of after them.
FetchInitHeadersLast(options) ==
    Spread(options, [headers |-> Spread(DefaultHeaders, OptionHeaders(options))])

\* { headers: { 'Content-Type': 'application/json', ...options.headers }, ...options }
FetchInit(options) ==
    Spread([headers |-> Spread(DefaultHeaders, OptionHeaders(options))], options)

\* The catch block of makeRequest, dropping the Error's message.
MakeRequestCatchNoMessage(thrown) ==
    [state |-> "fulfilled",
     value |-> [data |-> DataNull, error |-> JsString(UnknownError), loading |-> FALSE]]

\* The catch block of makeRequest.
MakeRequestCatch(thrown) ==
    [state |-> "fulfilled",
     value |-> [data |-> DataNull,
                error |-> IF thrown.isError THEN JsString(thrown.message)
                                            ELSE JsString(UnknownError),
                loading |-> FALSE]]

\* How the promise of makeRequest settles for an outcome of its fetch.
MakeRequestResult(outcome) ==
    IF outcome.kind = "threw" THEN MakeRequestCatch(outcome.thrown)
    ELSE IF ~(outcome.status \in 200..299)
         THEN MakeRequestCatch([isError |-> TRUE, message |-> HttpErrorMessage(outcome.status)])
    ELSE IF outcome.body.json = "invalid"
         THEN MakeRequestCatch([isError |-> TRUE, message |-> JsonSyntaxMessage])
    ELSE [state |-> "fulfilled",
          value |-> [data |-> outcome.body, error |-> JsNull, loading |-> FALSE]]

\* makeRequest up to its await: setLoading(true); fetch(url, init)
MakeRequest(via, endpoint, options) ==
    /\ apiIssued < MaxCalls
    /\ loading' = TRUE
    /\ calls' = calls \cup {[id |-> apiIssued + 1, via |-> via, options |-> options,
                             url |-> FLASK_BASE_URL \o endpoint,
                             init |-> FetchInit(options)]}
    /\ apiIssued' = apiIssued + 1
    /\ UNCHANGED settled
    /\ UNCHANGED dashVars

\* A component calls makeRequest directly.
MakeRequestCall ==
    \E endpoint \in Endpoints, options \in OptionSets :
        MakeRequest("makeRequest", endpoint, options)

\* testZendesk: makeRequest('/test_zendesk')
TestZendesk == MakeRequest("testZendesk", "/test_zendesk", EmptyObject)

\* runAiReply: makeRequest('/run_ai_reply')
ApiRunAiReply == MakeRequest("runAiReply", "/run_ai_reply", EmptyObject)

\* new FormData(); formData.append(name, value)
FormDataAppend(form, name, value) ==
    [form EXCEPT !.entries = Append(@, [name |-> name, value |-> value])]

NewFormData == [t |-> "formdata", entries |-> <<>>, text |-> ""]

\* uploadDocument(file)
UploadDocument(file) ==
    MakeRequest("uploadDocument", "/upload_document",
                [method |-> "POST",
                 body |-> FormDataAppend(NewFormData, "document", file),
                 headers |-> EmptyObject])

\* makeRequest after its await: return or catch, then finally setLoading(false)
MakeRequestSettle(c, outcome) ==
    /\ c \in calls
    /\ calls' = calls \ {c}
    /\ settled' = [id |-> c.id, outcome |-> outcome, result |-> MakeRequestResult(outcome)]
    /\ loading' = FALSE
    /\ UNCHANGED apiIssued
    /\ UNCHANGED dashVars

NoneSettled ==
    [id |-> 0,
     outcome |-> [kind |-> "none", thrown |-> NoThrown, status |-> 0, body |-> NoBody],
     result |-> [state |-> "pending",
                 value |-> [data |-> DataNull, error |-> JsNull, loading |-> FALSE]]]

(***************************************************************************)
(* The Dashboard view                                                      *)
(***************************************************************************)
NoLast == [op |-> "none", id |-> 0, endpoint |-> "", resp |-> NoResp,
           prev |-> <<>>, before |-> <<>>, overwritten |-> FALSE, overlapped |-> FALSE]

ApiIdle ==
    /\ loading = FALSE
    /\ calls = {}
    /\ settled = NoneSettled
    /\ apiIssued = 0

DashboardIdle ==
    /\ tickets = <<>>
    /\ isLoading = FALSE
    /\ mounted = FALSE
    /\ inflight = {}
    /\ issued = 0
    /\ newestDone = 0
    /\ effects = <<>>
    /\ last = NoLast

Init == DashboardIdle /\ ApiIdle

Next ==
    \/ Mount
    \/ ClickRefresh
    \/ ClickRunAi
    \/ \E r \in inflight, resp \in Responses : FetchTicketsDone(r, resp)
    \/ \E r \in inflight, resp \in Responses : RunAiReplyDone(r, resp)

Spec == Init /\ [][Next]_vars

(***************************************************************************)
(* The hook on its own                                                     *)
(***************************************************************************)
ApiInit == DashboardIdle /\ ApiIdle

ApiNext ==
    \/ MakeRequestCall
    \/ TestZendesk
    \/ ApiRunAiReply
    \/ \E file \in Files : UploadDocument(file)
    \/ \E c \in calls, outcome \in ApiOutcomes : MakeRequestSettle(c, outcome)

ApiSpec == ApiInit /\ [][ApiNext]_vars

(***************************************************************************)
(* Properties of the Dashboard view                                        *)
(***************************************************************************)
LastIsLoad == last.op = "done" /\ last.endpoint = TicketsEndpoint
LastIsRunAi == last.op = "done" /\ last.endpoint = AiEndpoint

\* A Load tickets call failed: transport error, non-2xx status, or an OK
\* response whose body cannot be parsed or accessed.
LoadFailed(resp) ==
    \/ resp.kind = "threw"
    \/ resp.kind = "http" /\ ~(resp.status \in 200..299)
    \/ resp.kind = "http" /\ resp.body.json # "object"

\* A Run AI call failed: transport error or non-2xx status.
RunAiFailed(resp) ==
    \/ resp.kind = "threw"
    \/ resp.kind = "http" /\ ~(resp.status \in 200..299)

LoadSucceeded(resp) ==
    resp.kind = "http" /\ resp.status \in 200..299 /\ resp.body.json = "object"

\* The tickets field of a response body, the empty list when it is absent.
Payload(resp) ==
    IF resp.body.tickets.t = "array" THEN resp.body.tickets.v ELSE <<>>

HasErrorToast ==
    \E i \in 1..Len(effects) : effects[i].call = "toast" /\ effects[i].variant = "destructive"

C2_EveryFailureNotifies ==
    /\ (LastIsLoad /\ LoadFailed(last.resp)) => HasErrorToast
    /\ (LastIsRunAi /\ RunAiFailed(last.resp)) => HasErrorToast

\* C3: when a Run AI reply batch call completes with an OK status, the
\* success notification is shown and then a fresh ticket-list request is
\* issued, in that order, and that request is in flight afterwards.
C3_RunAiSuccessThenReload ==
    (LastIsRunAi /\ last.resp.kind = "http" /\ last.resp.status \in 200..299) =>
        /\ Len(effects) = 2
        /\ effects[1].call = "toast"
        /\ effects[1].title = "Success"
        /\ effects[2].call = "fetch"
        /\ effects[2].title = "/test_zendesk"
        /\ \E r \in inflight : r.id = issued /\ r.endpoint = "/test_zendesk"

C3_Witness ==
    /\ LastIsRunAi
    /\ last.resp.kind = "http"
    /\ last.resp.status = 200
    /\ Len(effects) = 2

\* C4: a successful Load tickets call replaces the whole collection with
\* the response's tickets field (empty when absent), never appending; so a
\* second load with the same response leaves what the first one left,
\* whatever the collection was before.
C4_LoadReplacesTickets ==
    /\ (LastIsLoad /\ LoadSucceeded(last.resp)) => tickets = Payload(last.resp)
    /\ \A resp \in Responses :
         LoadSucceeded(resp) =>
            /\ TicketsAfterFetch(tickets, resp) = Payload(resp)
            /\ TicketsAfterFetch(TicketsAfterFetch(tickets, resp), resp)
                 = TicketsAfterFetch(tickets, resp)

C4_Witness ==
    /\ LastIsLoad
    /\ LoadSucceeded(last.resp)
    /\ last.prev # <<>>
    /\ Payload(last.resp) # <<>>
    /\ Payload(last.resp) # last.prev
    /\ tickets = Payload(last.resp)

\* C8: whenever a request issued by the view is in flight, the busy flag
\* is true.
C8_InflightImpliesBusy ==
    inflight # {} => isLoading

\* C9: a successful ticket-list response overwrites the collection even
\* when a later-issued ticket-list request has already completed
\* (last-response-wins).
C9_StaleResponseOverwrites ==
    (LastIsLoad /\ LoadSucceeded(last.resp) /\ last.overlapped) =>
        tickets = Payload(last.resp)

\* Two ticket-list requests overlapped, the later-issued one completed
\* first, and the collection now holds the earlier request's payload.
C9_Witness ==
    /\ LastIsLoad
    /\ LoadSucceeded(last.resp)
    /\ last.overlapped
    /\ last.id < newestDone
    /\ inflight = {}
    /\ tickets = Payload(last.resp)
    /\ tickets # last.prev

\* C10: once every request issued by the view has completed, the busy
\* flag is false.
C10_IdleImpliesNotBusy ==
    inflight = {} => ~isLoading

C10_Witness ==
    /\ LastIsLoad
    /\ last.resp.kind = "http"
    /\ last.resp.status = 500
    /\ inflight = {}
    /\ ~isLoading

(***************************************************************************)
(* Properties of the useFlaskApi hook                                      *)
(***************************************************************************)
Contains(s, sub) ==
    \E i \in 1..(Len(s) - Len(sub) + 1) : SubSeq(s, i, i + Len(sub) - 1) = sub

\* The decimal numerals of the non-2xx status codes the backend answers with.
StatusNumeral(status) ==
    CASE status = 404 -> <<"4", "0", "4">>
      [] status = 500 -> <<"5", "0", "0">>
      [] OTHER -> <<"?">>

\* C5: makeRequest always fulfils (never rejects) with an envelope whose
\* loading is false: 2xx with a parsable body gives the parsed body and a
\* null error; a non-2xx status gives null data and a message containing
\* the status code; a thrown Error gives its message verbatim; any other
\* thrown value gives 'Unknown error'.
C5_MakeRequestEnvelope ==
    settled.id # 0 =>
        LET o == settled.outcome
            e == settled.result.value
        IN  /\ settled.result.state = "fulfilled"
            /\ e.loading = FALSE
            /\ (o.kind = "http" /\ o.status \in 200..299 /\ o.body.json # "invalid") =>
                  (e.data = o.body /\ e.error = [t |-> "null", v |-> <<>>])
            /\ (o.kind = "http" /\ ~(o.status \in 200..299)) =>
                  /\ e.data = [json |-> "null", tickets |-> JsUndefined]
                  /\ e.error.t = "string"
                  /\ Contains(e.error.v, StatusNumeral(o.status))
            /\ (o.kind = "threw" /\ o.thrown.isError) =>
                  /\ e.data = [json |-> "null", tickets |-> JsUndefined]
                  /\ e.error = [t |-> "string", v |-> o.thrown.message]
            /\ (o.kind = "threw" /\ ~o.thrown.isError) =>
                  /\ e.data = [json |-> "null", tickets |-> JsUndefined]
                  /\ e.error = [t |-> "string",
                                v |-> <<"U", "n", "k", "n", "o", "w", "n", " ",
                                        "e", "r", "r", "o", "r">>]

C5_Witness ==
    /\ settled.id # 0
    /\ settled.outcome.kind = "http"
    /\ settled.outcome.status = 500
    /\ settled.result.state = "fulfilled"
    /\ Contains(settled.result.value.error.v, <<"5", "0", "0">>)

\* C6: whenever a caller passes headers to makeRequest (the multipart
\* upload aside), the headers sent are the default JSON Content-Type merged
\* with the caller's: every caller header is sent, and Content-Type:
\* application/json is sent unless the caller gave its own Content-Type.
C6_HeadersMerged ==
    \A c \in calls :
        ("headers" \in DOMAIN c.options /\ c.via # "uploadDocument") =>
            LET own  == c.options.headers
                sent == c.init.headers
            IN  /\ \A k \in DOMAIN own : k \in DOMAIN sent /\ sent[k] = own[k]
                /\ "Content-Type" \notin DOMAIN own =>
                      /\ "Content-Type" \in DOMAIN sent
                      /\ sent["Content-Type"] = "application/json"

\* C7: the document upload is a POST to /upload_document whose body is a
\* multipart form with the file under the field name 'document' and whose
\* headers carry no Content-Type at all.
C7_UploadRequest ==
    \A c \in calls :
        c.via = "uploadDocument" =>
            /\ c.url = "http://localhost:3000/upload_document"
            /\ c.init.method = "POST"
            /\ c.init.body.t = "formdata"
            /\ Len(c.init.body.entries) = 1
            /\ c.init.body.entries[1].name = "document"
            /\ c.init.body.entries[1].value \in Files
            /\ "Content-Type" \notin DOMAIN c.init.headers

C7_Witness ==
    \E c \in calls :
        /\ c.via = "uploadDocument"
        /\ c.init.body.entries[1].value = "faq.pdf"
        /\ DOMAIN c.init.headers = {}

====
